---- MODULE Spec2Model ----
(***************************************************************************)
(* Model of the task orchestration core of Agentic-CLI:                    *)
(* AgentOrchestrator in src/src/core/agent.ts (agent registry, PQueue      *)
(* bounded execution, dependency wait, retry, result store).               *)
(*                                                                         *)
(* An async method is cut at the awaits whose continuation touches shared  *)
(* state (timers, the AI call, the return of executeTask to assignTask or  *)
(* to the queue job, onIdle in shutdown).                                  *)
(*                                                                         *)
(* Time is in milliseconds and kept per call as clocks: `elapsed` is       *)
(* Date.now() - startTime of executeTask, `waited` is Date.now() -         *)
(* startTime of waitForDependencies, `remaining` is the time left on the   *)
(* call's setTimeout.  Tick advances every running clock to the next timer *)
(* deadline, and timers fire on time.                                      *)
(***************************************************************************)
EXTENDS Integers, Sequences, FiniteSets, TLC

\* ---------------------------------------------------------------- bounds
MaxCalls == 2              \* executeTask invocations created over a run
MaxBatch == 2              \* tasks in one executeParallel call
MaxAgents == 1             \* createAgent calls over a run
MaxShutdowns == 2          \* shutdown() calls over a run
MaxAttempts == 4           \* AsyncUtils.retry: largest `attempts` tried
MaxTasks == 3              \* AsyncUtils.parallel: most tasks in one call
MaxSteps == 2              \* WorkflowEngine: most steps in one workflow

\* ------------------------------------------------------ program constants
CheckInterval == 100       \* waitForDependencies: const checkInterval = 100
BackoffBase == 1000        \* retryTask: setTimeout(resolve, 1000 * attempt)
DefaultRetryAttempts == 3  \* agents.retryAttempts: z.number().default(3)

\* Error messages are <<kind, n>>: the n-th invocation of a call's body rejects
\* with the message <<"body", n>>, so a message names the attempt it came from.
NoError == <<"none", 0>>
DependencyTimeoutMsg == <<"Dependency timeout: Some dependencies did not complete in time", 0>>
AgentNotFoundMsg == <<"Agent not found", 0>>
BodyError(n) == <<"body", n>>

\* Outputs likewise: the n-th invocation resolves with <<"output", n>>
Null == <<"null", 0>>
BodyOutput(n) == <<"output", n>>

\* ---------------------------------------------------------------- inputs
TaskIds == {"t1", "t2"}
ConcurrencyChoices == {1, 2}
TimeoutChoices == {0, 2 * CheckInterval}
RetryChoices == {0, 1}
AgentIds == 1..(MaxAgents + 1)   \* the last one is never created: an unknown id

\* AgentTask: `dependencies` is optional; hasDeps is "the field is present"
\* (an empty array is present, and truthy in `if (task.dependencies)`).
Task(id, hasDeps, dependencies, retryOnFailure) ==
    [id |-> id, hasDeps |-> hasDeps, dependencies |-> dependencies,
     retryOnFailure |-> retryOnFailure]

\* the tasks submitted: t1 without `dependencies`, t1 with an empty list, and
\* t2 that depends on t1; each with and without retryOnFailure
AgentTask ==
    {Task("t1", FALSE, {}, r) : r \in BOOLEAN}
    \cup {Task("t1", TRUE, {}, r) : r \in BOOLEAN}
    \cup {Task("t2", TRUE, {"t1"}, r) : r \in BOOLEAN}

NoTask == Task("none", FALSE, {}, FALSE)

\* AgentResult; Undefined stands for "no value" (Map.get miss, unresolved promise)
AgentResult(taskId, status, output, error, duration) ==
    [taskId |-> taskId, status |-> status, output |-> output, error |-> error,
     duration |-> duration]

Undefined == AgentResult("none", "undefined", Null, NoError, 0)

AgentConfig ==
    [maxConcurrent : ConcurrencyChoices, timeout : TimeoutChoices,
     retryAttempts : RetryChoices]

\* the configurations with the default number of retry attempts
DefaultRetryConfig ==
    [maxConcurrent : ConcurrencyChoices, timeout : TimeoutChoices,
     retryAttempts : {DefaultRetryAttempts}]

VARIABLES
    config,        \* this.config
    agents,        \* this.agents: the ids that are keys of the registry Map
    agentObj,      \* the Agent objects ever created (the Map holds references)
    taskResults,   \* this.taskResults
    calls,         \* every assignTask / executeTask invocation, in call order
    queue,         \* PQueue: indices of calls added and not yet started
    pending,       \* PQueue: jobs started and not yet finished
    batches,       \* executeParallel invocations
    shutdowns,     \* a shutdown() call is suspended in `await taskQueue.onIdle()`
    budget,        \* executeTask invocations the callers may still create
    cleared,       \* shutdown() calls that have returned
    snapshot,      \* the Map a caller got from getStatus() and kept
    retryCall,     \* a call of AsyncUtils.retry
    parallelCall,  \* a call of AsyncUtils.parallel
    execution      \* a WorkflowExecution of WorkflowEngine.executeWorkflow

\* the state outside the orchestrator
utils == <<retryCall, parallelCall, execution>>

vars == <<config, agents, agentObj, taskResults, calls, queue, pending,
          batches, shutdowns, budget, cleared, snapshot, retryCall,
          parallelCall, execution>>

\* no call of AsyncUtils.retry or AsyncUtils.parallel and no workflow yet
NoRetryCall ==
    [pc |-> "idle", attempts |-> 0, delay |-> 0, i |-> 0, invoked |-> 0,
     ms |-> 0, value |-> Null, error |-> NoError]

NoParallelCall ==
    [pc |-> "idle", n |-> 0, limit |-> 0, next |-> 1, state |-> << >>,
     executing |-> << >>, results |-> << >>, raceWon |-> FALSE]

NoExecution ==
    [pc |-> "idle", status |-> "none", workflow |-> << >>, pos |-> 1,
     steps |-> << >>]

UtilsUnused ==
    /\ retryCall = NoRetryCall
    /\ parallelCall = NoParallelCall
    /\ execution = NoExecution

\* waitForDependencies: dependencies.every(...) on the result store
AllComplete(dependencies) ==
    \A depId \in dependencies :
        /\ taskResults[depId] # Undefined
        /\ taskResults[depId].status = "success"

\* ------------------------------------------------------------- call state
\* `ready` notes whether every prerequisite had a success outcome in the
\* result store when the task was submitted; `stale` notes that a shutdown()
\* returned while the call was in progress
NewCall(task, origin, agent, batch, idx) ==
    [task |-> task, origin |-> origin, agent |-> agent, batch |-> batch, idx |-> idx,
     pc |-> "queued", elapsed |-> 0, waited |-> 0, remaining |-> 0, attempt |-> 0,
     error |-> NoError, invoked |-> 0, threw |-> 0, observed |-> FALSE,
     timedOut |-> FALSE, ready |-> AllComplete(task.dependencies),
     stale |-> FALSE, result |-> Undefined]

\* this.processTask(task) is entered: the AI call is in flight
InvokeBody(c) == [c EXCEPT !.pc = "body", !.invoked = @ + 1]

InvokeRetryBody(c) == [c EXCEPT !.pc = "retrybody", !.invoked = @ + 1]

\* retryTask: head of `for (attempt; attempt <= retryAttempts; attempt++)`
RetryLoop(c, attempt) ==
    IF attempt <= config.retryAttempts
    THEN [c EXCEPT !.pc = "backoff", !.attempt = attempt,
                   !.remaining = BackoffBase * attempt]
    ELSE [c EXCEPT !.pc = "done",
                   !.result = AgentResult(c.task.id, "failure", Null, c.error, 0)]

retryTask(c, msg) == RetryLoop([c EXCEPT !.error = msg], 1)

\* a catch block that converts nothing: the error of a task that is not
\* retried leaves executeTask
CatchBlockRethrows(c, msg) ==
    IF c.task.retryOnFailure /\ config.retryAttempts > 0
    THEN retryTask(c, msg)
    ELSE [c EXCEPT !.pc = "raised", !.waited = 0, !.error = msg]

\* a catch block that retries whether or not the task opted in
CatchBlockAlwaysRetries(c, msg) ==
    IF config.retryAttempts > 0
    THEN retryTask(c, msg)
    ELSE [c EXCEPT !.pc = "done", !.waited = 0,
                   !.result = AgentResult(c.task.id, "failure", Null, msg, c.elapsed)]

\* executeTask: the catch block
CatchBlock(c, msg) ==
    IF c.task.retryOnFailure /\ config.retryAttempts > 0
    THEN retryTask(c, msg)
    ELSE [c EXCEPT !.pc = "done", !.waited = 0,
                   !.result = AgentResult(c.task.id, "failure", Null, msg, c.elapsed)]

\* a wait without a time limit: once the time is up it checks again and again
WaitLoopNeverTimesOut(c) ==
    IF AllComplete(c.task.dependencies)
    THEN InvokeBody([c EXCEPT !.observed = TRUE, !.waited = 0])
    ELSE IF c.waited < config.timeout
    THEN [c EXCEPT !.pc = "sleeping", !.remaining = CheckInterval]
    ELSE [c EXCEPT !.pc = "sleeping", !.remaining = 0]

\* a wait that gives up as soon as a prerequisite has a failure outcome
WaitLoopFailsFast(c) ==
    IF \E depId \in c.task.dependencies : taskResults[depId].status = "failure"
    THEN CatchBlock([c EXCEPT !.timedOut = TRUE, !.waited = 0], DependencyTimeoutMsg)
    ELSE IF c.waited < config.timeout
    THEN IF AllComplete(c.task.dependencies)
         THEN InvokeBody([c EXCEPT !.observed = TRUE, !.waited = 0])
         ELSE [c EXCEPT !.pc = "sleeping", !.remaining = CheckInterval]
    ELSE CatchBlock([c EXCEPT !.timedOut = TRUE, !.waited = 0], DependencyTimeoutMsg)

\* waitForDependencies: head of the while loop
WaitLoop(c) ==
    IF c.waited < config.timeout
    THEN IF AllComplete(c.task.dependencies)
         THEN InvokeBody([c EXCEPT !.observed = TRUE, !.waited = 0])
         ELSE [c EXCEPT !.pc = "sleeping", !.remaining = CheckInterval]
    ELSE CatchBlock([c EXCEPT !.timedOut = TRUE, !.waited = 0], DependencyTimeoutMsg)

waitForDependencies(c) == WaitLoop([c EXCEPT !.waited = 0])

\* executeTask: from entry to its first suspension
StartExecute(c) ==
    LET c1 == [c EXCEPT !.elapsed = 0]
    IN  IF c.task.hasDeps THEN waitForDependencies(c1) ELSE InvokeBody(c1)

\* the orchestrator after construction, and the calls its users will make
Constructed(configs, nCalls) ==
    /\ config \in configs
    /\ budget = nCalls
    /\ agents = {}
    /\ agentObj = << >>
    /\ taskResults = [t \in TaskIds |-> Undefined]
    /\ calls = << >>
    /\ queue = << >>
    /\ pending = 0
    /\ batches = << >>
    /\ shutdowns = FALSE
    /\ cleared = 0
    /\ snapshot = [taken |-> FALSE, keys |-> {}, copy |-> << >>]
    /\ UtilsUnused

Init == Constructed(AgentConfig, MaxCalls)

\* one call on an orchestrator configured with the default retry attempts
InitDefaultRetry == Constructed(DefaultRetryConfig, 1)

\* ------------------------------------------------------------------ PQueue
\* a queue that starts the next job without looking at its concurrency
TryToStartAnotherUnbounded(qs) ==
    IF qs.queue # << >>
    THEN LET i == Head(qs.queue)
         IN  [calls |-> [qs.calls EXCEPT ![i] = StartExecute(@)],
              queue |-> Tail(qs.queue),
              pending |-> qs.pending + 1]
    ELSE qs

\* PQueue.#tryToStartAnother on the queue state qs = [calls, queue, pending]
TryToStartAnother(qs) ==
    IF qs.pending < config.maxConcurrent /\ qs.queue # << >>
    THEN LET i == Head(qs.queue)
         IN  [calls |-> [qs.calls EXCEPT ![i] = StartExecute(@)],
              queue |-> Tail(qs.queue),
              pending |-> qs.pending + 1]
    ELSE qs

\* PQueue.add(() => this.executeTask(task)): enqueue, then try to start
QueueAdd(qs, c) ==
    TryToStartAnother([calls |-> Append(qs.calls, c),
                       queue |-> Append(qs.queue, Len(qs.calls) + 1),
                       pending |-> qs.pending])

RECURSIVE QueueAddAll(_, _, _, _)
\* tasks.map((task) => this.taskQueue.add(...)) from index k on
QueueAddAll(qs, tasks, b, k) ==
    IF k > Len(tasks) THEN qs
    ELSE QueueAddAll(QueueAdd(qs, NewCall(tasks[k], "parallel", 0, b, k)), tasks, b, k + 1)

\* values collected in the order the promises resolve
PromiseAllByCompletion(values, order, idx, result) ==
    [values EXCEPT ![Len(order) + 1] = result]

\* Promise.all: the value of promise idx is stored at position idx
PromiseAllResolve(values, order, idx, result) == [values EXCEPT ![idx] = result]

\* results.filter((result) => result !== undefined)
FilterDefined(values) == SelectSeq(values, LAMBDA r : r # Undefined)

\* -------------------------------------------------------------- operations
createAgent ==
    /\ Len(agentObj) < MaxAgents
    /\ LET id == Len(agentObj) + 1
       IN  /\ agentObj' = Append(agentObj, [status |-> "idle", currentTask |-> NoTask])
           /\ agents' = agents \cup {id}
    /\ UNCHANGED <<utils, config, snapshot, cleared, taskResults, calls, queue, pending, batches,
                   shutdowns, budget>>

\* an assignTask that records a failure outcome for an unknown agent id
assignTaskRecordsNotFound(agentId, task) ==
    /\ budget > 0
    /\ budget' = budget - 1
    /\ IF agentId \notin agents
       THEN /\ calls' = Append(calls,
                    [NewCall(task, "assign", agentId, 0, 0) EXCEPT
                        !.pc = "notfound", !.error = AgentNotFoundMsg])
            /\ taskResults' = [taskResults EXCEPT ![task.id] =
                    AgentResult(task.id, "failure", Null, AgentNotFoundMsg, 0)]
            /\ UNCHANGED agentObj
       ELSE /\ agentObj' = [agentObj EXCEPT ![agentId] =
                               [status |-> "busy", currentTask |-> task]]
            /\ calls' = Append(calls, StartExecute(NewCall(task, "assign", agentId, 0, 0)))
            /\ UNCHANGED taskResults
    /\ UNCHANGED <<utils, config, snapshot, cleared, agents, queue, pending, batches,
                   shutdowns>>

\* assignTask up to `await this.executeTask(task)`; with an unknown agent id
\* it throws at once and the call is over (pc "notfound")
assignTask(agentId, task) ==
    /\ budget > 0
    /\ budget' = budget - 1
    /\ IF agentId \notin agents
       THEN /\ calls' = Append(calls,
                    [NewCall(task, "assign", agentId, 0, 0) EXCEPT
                        !.pc = "notfound", !.error = AgentNotFoundMsg])
            /\ UNCHANGED agentObj
       ELSE /\ agentObj' = [agentObj EXCEPT ![agentId] =
                               [status |-> "busy", currentTask |-> task]]
            /\ calls' = Append(calls, StartExecute(NewCall(task, "assign", agentId, 0, 0)))
    /\ UNCHANGED <<utils, config, snapshot, cleared, agents, taskResults, queue, pending,
                   batches, shutdowns>>

\* a finally block that resets the status and keeps the task reference
ReleasedKeepsTask(agent) == [agent EXCEPT !.status = "idle"]

\* a finally block that drops the task reference and leaves the status
ReleasedStaysBusy(agent) == [agent EXCEPT !.currentTask = NoTask]

\* assignTask: the finally block
Released(agent) == [agent EXCEPT !.currentTask = NoTask, !.status = "idle"]

\* assignTask after `await this.executeTask(task)`: set the result, then finally
AssignFinish(i) ==
    /\ calls[i].origin = "assign"
    /\ calls[i].pc \in {"done", "raised"}
    /\ LET c == calls[i]
       IN  /\ IF c.pc = "done"
              THEN taskResults' = [taskResults EXCEPT ![c.task.id] = c.result]
              ELSE UNCHANGED taskResults
           /\ agentObj' = [agentObj EXCEPT ![c.agent] = Released(@)]
    /\ calls' = [calls EXCEPT ![i].pc = IF @ = "done" THEN "finished" ELSE "rethrown"]
    /\ UNCHANGED <<utils, config, snapshot, cleared, agents, queue, pending, batches,
                   shutdowns, budget>>

executeTask(task) ==
    /\ budget > 0
    /\ budget' = budget - 1
    /\ calls' = Append(calls, StartExecute(NewCall(task, "direct", 0, 0, 0)))
    /\ UNCHANGED <<utils, config, snapshot, cleared, agents, agentObj, taskResults, queue, pending,
                   batches, shutdowns>>

executeParallel(tasks) ==
    /\ Len(tasks) <= budget
    /\ budget' = budget - Len(tasks)
    /\ LET b == Len(batches) + 1
           qs == QueueAddAll([calls |-> calls, queue |-> queue, pending |-> pending],
                             tasks, b, 1)
       IN  /\ calls' = qs.calls
           /\ queue' = qs.queue
           /\ pending' = qs.pending
           /\ batches' = Append(batches,
                  [first |-> Len(calls) + 1, n |-> Len(tasks),
                   values |-> [k \in 1..Len(tasks) |-> Undefined],
                   order |-> << >>, state |-> "pending", result |-> << >>])
    /\ UNCHANGED <<utils, config, snapshot, cleared, agents, agentObj, taskResults, shutdowns>>

\* the queue job after `await operation`: resolve(result), finally #next();
\* when the last promise of the batch resolves, executeParallel returns
QueueJobFinish(i) ==
    /\ calls[i].origin = "parallel"
    /\ calls[i].pc \in {"done", "raised"}
    /\ LET c == calls[i]
           b == batches[c.batch]
           qs == TryToStartAnother(
                     [calls |-> [calls EXCEPT ![i].pc =
                                    IF @ = "done" THEN "finished" ELSE "rethrown"],
                      queue |-> queue, pending |-> pending - 1])
           values == PromiseAllResolve(b.values, b.order, c.idx, c.result)
           order == Append(b.order, c.idx)
       IN  /\ calls' = qs.calls
           /\ queue' = qs.queue
           /\ pending' = qs.pending
           /\ IF c.pc = "raised"
              THEN batches' = [batches EXCEPT ![c.batch].state = "rejected"]
              ELSE batches' = [batches EXCEPT ![c.batch] =
                          [b EXCEPT !.values = values, !.order = order,
                                    !.state = IF Len(order) = b.n /\ b.state = "pending"
                                              THEN "returned" ELSE b.state,
                                    !.result = IF Len(order) = b.n /\ b.state = "pending"
                                               THEN FilterDefined(values) ELSE << >>]]
    /\ UNCHANGED <<utils, config, snapshot, cleared, agents, agentObj, taskResults, shutdowns, budget>>

\* the setTimeout(checkInterval) of waitForDependencies fires
PollWake(i) ==
    /\ calls[i].pc = "sleeping"
    /\ calls[i].remaining = 0
    /\ calls' = [calls EXCEPT ![i] = WaitLoop(@)]
    /\ UNCHANGED <<utils, config, snapshot, cleared, agents, agentObj, taskResults, queue, pending,
                   batches, shutdowns, budget>>

\* a success outcome that drops the value processTask resolved with
BodyReturnNull(i) ==
    /\ calls[i].pc = "body"
    /\ LET c == calls[i]
       IN  calls' = [calls EXCEPT ![i] =
                        [c EXCEPT !.pc = "done",
                                  !.result = AgentResult(c.task.id, "success", Null,
                                                         NoError, c.elapsed)]]
    /\ UNCHANGED <<utils, config, snapshot, cleared, agents, agentObj, taskResults, queue,
                   pending, batches, shutdowns, budget>>

\* executeTask: processTask resolved with `out`
BodyReturn(i) ==
    /\ calls[i].pc = "body"
    /\ LET c == calls[i]
       IN  calls' = [calls EXCEPT ![i] =
                        [c EXCEPT !.pc = "done",
                                  !.result = AgentResult(c.task.id, "success",
                                                         BodyOutput(c.invoked), NoError,
                                                         c.elapsed)]]
    /\ UNCHANGED <<utils, config, snapshot, cleared, agents, agentObj, taskResults, queue, pending,
                   batches, shutdowns, budget>>

\* executeTask: processTask rejected with an Error whose message is `err`
BodyThrow(i) ==
    /\ calls[i].pc = "body"
    /\ calls' = [calls EXCEPT ![i] = CatchBlock([calls[i] EXCEPT !.threw = @ + 1],
                                               BodyError(calls[i].invoked))]
    /\ UNCHANGED <<utils, config, snapshot, cleared, agents, agentObj, taskResults, queue, pending,
                   batches, shutdowns, budget>>

\* retryTask: the setTimeout(1000 * attempt) fires, processTask is called
BackoffWake(i) ==
    /\ calls[i].pc = "backoff"
    /\ calls[i].remaining = 0
    /\ calls' = [calls EXCEPT ![i] = InvokeRetryBody(@)]
    /\ UNCHANGED <<utils, config, snapshot, cleared, agents, agentObj, taskResults, queue, pending,
                   batches, shutdowns, budget>>

RetryBodyReturn(i) ==
    /\ calls[i].pc = "retrybody"
    /\ LET c == calls[i]
       IN  calls' = [calls EXCEPT ![i] =
                        [c EXCEPT !.pc = "done",
                                  !.result = AgentResult(c.task.id, "success",
                                                         BodyOutput(c.invoked), NoError, 0)]]
    /\ UNCHANGED <<utils, config, snapshot, cleared, agents, agentObj, taskResults, queue, pending,
                   batches, shutdowns, budget>>

\* a catch that reports the error retryTask was called with
RetryCatchFirstError(c, err) ==
    IF c.attempt = config.retryAttempts
    THEN [c EXCEPT !.pc = "done",
                   !.result = AgentResult(c.task.id, "failure", Null, c.error, 0)]
    ELSE RetryLoop(c, c.attempt + 1)

\* retryTask: the catch inside the loop
RetryCatch(c, err) ==
    IF c.attempt = config.retryAttempts
    THEN [c EXCEPT !.pc = "done",
                   !.result = AgentResult(c.task.id, "failure", Null, err, 0)]
    ELSE RetryLoop(c, c.attempt + 1)

RetryBodyThrow(i) ==
    /\ calls[i].pc = "retrybody"
    /\ calls' = [calls EXCEPT ![i] = RetryCatch([calls[i] EXCEPT !.threw = @ + 1],
                                               BodyError(calls[i].invoked))]
    /\ UNCHANGED <<utils, config, snapshot, cleared, agents, agentObj, taskResults, queue, pending,
                   batches, shutdowns, budget>>

\* shutdown() up to `await this.taskQueue.onIdle()`
shutdown ==
    /\ cleared < MaxShutdowns
    /\ ~shutdowns
    /\ shutdowns' = TRUE
    /\ UNCHANGED <<utils, config, snapshot, cleared, agents, agentObj, taskResults, calls,
                   queue, pending, batches, budget>>

\* an idle test that looks at the waiting jobs only
QueueEmpty == queue = << >>

\* PQueue.onIdle() resolves when nothing is queued or pending
QueueIdle == pending = 0 /\ queue = << >>

Over(c) == c.pc \in {"finished", "rethrown", "notfound"}

\* a shutdown that clears the registry and keeps the result store
ShutdownClearKeepsResults ==
    /\ shutdowns
    /\ QueueIdle
    /\ shutdowns' = FALSE
    /\ agents' = {}
    /\ cleared' = cleared + 1
    /\ UNCHANGED <<utils, config, snapshot, agentObj, taskResults, calls, queue, pending,
                   batches, budget>>

\* shutdown() after onIdle: agents.clear(); taskResults.clear()
ShutdownClear ==
    /\ shutdowns
    /\ QueueIdle
    /\ shutdowns' = FALSE
    /\ agents' = {}
    /\ taskResults' = [t \in TaskIds |-> Undefined]
    /\ cleared' = cleared + 1
    /\ calls' = [i \in 1..Len(calls) |->
                    IF Over(calls[i]) THEN calls[i] ELSE [calls[i] EXCEPT !.stale = TRUE]]
    /\ UNCHANGED <<utils, config, snapshot, agentObj, queue, pending, batches, budget>>

\* getStatus(): new Map(this.agents) copies the entries of the Map; the
\* values of the copy are the registry's own Agent objects
getStatus ==
    /\ ~snapshot.taken
    /\ snapshot' = [taken |-> TRUE, keys |-> agents, copy |-> agentObj]
    /\ UNCHANGED <<utils, config, cleared, agents, agentObj, taskResults, calls, queue,
                   pending, batches, shutdowns, budget>>

\* what a caller reads through the Map it was given: its keys, and under each
\* key the Agent object as it is now
SnapshotView == [id \in snapshot.keys |-> agentObj[id]]

\* -------------------------------------------------------------------- time
Timers == {i \in 1..Len(calls) :
              calls[i].pc \in {"sleeping", "backoff"} /\ calls[i].remaining > 0}

Running(c) == c.pc \in {"sleeping", "body", "backoff", "retrybody"}

NextDeadline == CHOOSE d \in {calls[i].remaining : i \in Timers} :
                    \A i \in Timers : d <= calls[i].remaining

Advance(c, d) ==
    IF Running(c)
    THEN [c EXCEPT !.elapsed = @ + d,
                   !.waited = IF c.pc = "sleeping" THEN @ + d ELSE @,
                   !.remaining = IF @ > d THEN @ - d ELSE 0]
    ELSE c

\* the clock advances to the next timer deadline, once every timer that is
\* due has fired
Tick ==
    /\ Timers # {}
    /\ \A i \in 1..Len(calls) :
           calls[i].pc \in {"sleeping", "backoff"} => calls[i].remaining > 0
    /\ calls' = [i \in 1..Len(calls) |-> Advance(calls[i], NextDeadline)]
    /\ UNCHANGED <<utils, config, snapshot, cleared, agents, agentObj, taskResults, queue, pending,
                   batches, shutdowns, budget>>

Batches == UNION {[1..n -> AgentTask] : n \in 1..MaxBatch}

Next ==
    \/ createAgent
    \/ \E agentId \in AgentIds, task \in AgentTask : assignTask(agentId, task)
    \/ \E task \in AgentTask : executeTask(task)
    \/ \E tasks \in Batches : executeParallel(tasks)
    \/ \E i \in 1..Len(calls) : AssignFinish(i)
    \/ \E i \in 1..Len(calls) : QueueJobFinish(i)
    \/ \E i \in 1..Len(calls) : PollWake(i)
    \/ \E i \in 1..Len(calls) : BodyReturn(i)
    \/ \E i \in 1..Len(calls) : BodyThrow(i)
    \/ \E i \in 1..Len(calls) : BackoffWake(i)
    \/ \E i \in 1..Len(calls) : RetryBodyReturn(i)
    \/ \E i \in 1..Len(calls) : RetryBodyThrow(i)
    \/ shutdown
    \/ ShutdownClear
    \/ Tick

Spec == Init /\ [][Next]_vars

SpecDefaultRetry == InitDefaultRetry /\ [][Next]_vars

\* an orchestrator with a positive timeout on which assignTask(agent 1, t1)
\* has run and failed: the result store holds a failure outcome for t1
FailedAssign ==
    [NewCall(Task("t1", FALSE, {}, FALSE), "assign", 1, 0, 0) EXCEPT
        !.pc = "finished", !.invoked = 1, !.threw = 1,
        !.result = AgentResult("t1", "failure", Null, BodyError(1), 0)]

InitFailedPrerequisite ==
    /\ config \in {c \in AgentConfig : c.timeout > 0}
    /\ budget = MaxCalls
    /\ agents = {1}
    /\ agentObj = <<[status |-> "idle", currentTask |-> NoTask]>>
    /\ taskResults = [t \in TaskIds |->
                         IF t = "t1" THEN FailedAssign.result ELSE Undefined]
    /\ calls = <<FailedAssign>>
    /\ queue = << >>
    /\ pending = 0
    /\ batches = << >>
    /\ shutdowns = FALSE
    /\ cleared = 0
    /\ snapshot = [taken |-> FALSE, keys |-> {}, copy |-> << >>]
    /\ UtilsUnused

\* the calls made from then on (the agent exists already)
NextFailedPrerequisite ==
    \/ \E agentId \in AgentIds, task \in AgentTask : assignTask(agentId, task)
    \/ \E task \in AgentTask : executeTask(task)
    \/ \E tasks \in Batches : executeParallel(tasks)
    \/ \E i \in 1..Len(calls) : AssignFinish(i)
    \/ \E i \in 1..Len(calls) : QueueJobFinish(i)
    \/ \E i \in 1..Len(calls) : PollWake(i)
    \/ \E i \in 1..Len(calls) : BodyReturn(i)
    \/ \E i \in 1..Len(calls) : BodyThrow(i)
    \/ \E i \in 1..Len(calls) : BackoffWake(i)
    \/ \E i \in 1..Len(calls) : RetryBodyReturn(i)
    \/ \E i \in 1..Len(calls) : RetryBodyThrow(i)
    \/ shutdown
    \/ ShutdownClear
    \/ Tick

SpecFailedPrerequisite == InitFailedPrerequisite /\ [][NextFailedPrerequisite]_vars

\* batches whose tasks block each other: a dependency cycle, two dependents of
\* a task that never runs, and a dependent submitted ahead of its prerequisite
BlockedBatches ==
    UNION {{ <<Task("t1", TRUE, {"t2"}, r1), Task("t2", TRUE, {"t1"}, r2)>>,
             <<Task("t2", TRUE, {"t1"}, r1), Task("t2", TRUE, {"t1"}, r2)>>,
             <<Task("t2", TRUE, {"t1"}, r1), Task("t1", FALSE, {}, r2)>> }
           : r1, r2 \in BOOLEAN}

\* a caller that submits one such batch through executeParallel
InitBatch == Constructed(AgentConfig, MaxBatch)

NextBatch ==
    \/ \E tasks \in BlockedBatches : executeParallel(tasks)
    \/ \E i \in 1..Len(calls) : QueueJobFinish(i)
    \/ \E i \in 1..Len(calls) : PollWake(i)
    \/ \E i \in 1..Len(calls) : BodyReturn(i)
    \/ \E i \in 1..Len(calls) : BodyThrow(i)
    \/ \E i \in 1..Len(calls) : BackoffWake(i)
    \/ \E i \in 1..Len(calls) : RetryBodyReturn(i)
    \/ \E i \in 1..Len(calls) : RetryBodyThrow(i)
    \/ Tick

\* every AI call settles, every timer fires, every continuation runs
Settles ==
    /\ WF_vars(\E i \in 1..Len(calls) : BodyReturn(i) \/ BodyThrow(i))
    /\ WF_vars(\E i \in 1..Len(calls) : RetryBodyReturn(i) \/ RetryBodyThrow(i))
    /\ WF_vars(\E i \in 1..Len(calls) : PollWake(i))
    /\ WF_vars(\E i \in 1..Len(calls) : BackoffWake(i))
    /\ WF_vars(\E i \in 1..Len(calls) : QueueJobFinish(i))
    /\ WF_vars(Tick)

SpecBatch == InitBatch /\ [][NextBatch]_vars /\ Settles

\* a caller that also takes a status snapshot, on an orchestrator given one call
InitStatus == Constructed(AgentConfig, 1)

NextStatus == Next \/ getStatus

SpecStatus == InitStatus /\ [][NextStatus]_vars

\* -------------------------------------------------------------- AsyncUtils
\* the orchestrator's state, which AsyncUtils and WorkflowEngine do not touch
orchestrator == <<config, agents, agentObj, taskResults, calls, queue, pending,
                  batches, shutdowns, budget, cleared, snapshot>>

AttemptsChoices == 0..MaxAttempts
DelayChoices == {0, 10, 100, 1000}
LimitChoices == 1..MaxTasks

\* the n-th call of fn resolves with <<"value", n>> or rejects with <<"fail", n>>
FnValue(n) == <<"value", n>>
FnError(n) == <<"fail", n>>
MaxRetryMsg == <<"Max retry attempts reached", 0>>

\* a loop head that makes one call more than `attempts`
RetryForOneMore(r) ==
    IF r.i <= r.attempts
    THEN [r EXCEPT !.pc = "calling", !.invoked = @ + 1]
    ELSE [r EXCEPT !.pc = "rejected", !.error = MaxRetryMsg]

\* retry: head of `for (let i = 0; i < attempts; i++)`, up to `await fn()`
RetryFor(r) ==
    IF r.i < r.attempts
    THEN [r EXCEPT !.pc = "calling", !.invoked = @ + 1]
    ELSE [r EXCEPT !.pc = "rejected", !.error = MaxRetryMsg]

retry(attempts, delay) ==
    /\ retryCall.pc = "idle"
    /\ retryCall' = RetryFor([NoRetryCall EXCEPT !.attempts = attempts, !.delay = delay])
    /\ UNCHANGED <<orchestrator, parallelCall, execution>>

\* fn() resolved: `return await fn()`
FnResolve ==
    /\ retryCall.pc = "calling"
    /\ retryCall' = [retryCall EXCEPT !.pc = "resolved",
                                      !.value = FnValue(retryCall.invoked)]
    /\ UNCHANGED <<orchestrator, parallelCall, execution>>

\* fn() rejected: the catch block, up to `await this.sleep(...)`
FnReject ==
    /\ retryCall.pc = "calling"
    /\ retryCall' =
          IF retryCall.i = retryCall.attempts - 1
          THEN [retryCall EXCEPT !.pc = "rejected", !.error = FnError(retryCall.invoked)]
          ELSE [retryCall EXCEPT !.pc = "sleeping",
                                 !.ms = retryCall.delay * (retryCall.i + 1)]
    /\ UNCHANGED <<orchestrator, parallelCall, execution>>

\* the sleep is over: i++ and the loop head again
SleepWake ==
    /\ retryCall.pc = "sleeping"
    /\ retryCall' = RetryFor([retryCall EXCEPT !.i = @ + 1])
    /\ UNCHANGED <<orchestrator, parallelCall, execution>>

\* the entries of `executing` whose task has rejected (they are never spliced)
Rejected(p) == {k \in 1..Len(p.executing) : p.state[p.executing[k]] = "rejected"}

\* `await Promise.all(executing); return results` after the loop
ParJoin(p) ==
    IF Rejected(p) # {} THEN [p EXCEPT !.pc = "rejected"]
    ELSE IF p.executing = << >> THEN [p EXCEPT !.pc = "resolved"]
    ELSE [p EXCEPT !.pc = "joining"]

RECURSIVE ParLoopUnlimited(_)
\* a loop that starts every task without waiting for a free place
ParLoopUnlimited(p) ==
    IF p.next > p.n THEN ParJoin(p)
    ELSE ParLoopUnlimited([p EXCEPT !.state[p.next] = "running",
                                    !.executing = Append(@, p.next),
                                    !.next = @ + 1])

RECURSIVE ParLoop(_)
\* parallel: `for (const task of tasks)` from task `next` to the next await
ParLoop(p) ==
    IF p.next > p.n THEN ParJoin(p)
    ELSE LET q == [p EXCEPT !.state[p.next] = "running",
                            !.executing = Append(@, p.next),
                            !.next = @ + 1]
         IN  IF Len(q.executing) >= q.limit
             THEN IF Rejected(q) # {}
                  THEN [q EXCEPT !.pc = "rejected"]
                  ELSE [q EXCEPT !.pc = "racing", !.raceWon = FALSE]
             ELSE ParLoop(q)

parallel(n, limit) ==
    /\ parallelCall.pc = "idle"
    /\ parallelCall' = ParLoop([NoParallelCall EXCEPT
                                   !.n = n, !.limit = limit,
                                   !.state = [k \in 1..n |-> "notstarted"]])
    /\ UNCHANGED <<orchestrator, retryCall, execution>>

\* the .then callback of task k: results.push(result); executing.splice(...)
ThenCallback(p, k) ==
    [p EXCEPT !.state[k] = "resolved",
              !.results = Append(@, k),
              !.executing = SelectSeq(@, LAMBDA e : e # k)]

\* task k resolves with the value k and its callback runs
TaskResolve(k) ==
    /\ k \in 1..parallelCall.n
    /\ parallelCall.state[k] = "running"
    /\ LET p == ThenCallback(parallelCall, k)
       IN  parallelCall' =
             IF p.pc = "racing" THEN [p EXCEPT !.raceWon = TRUE]
             ELSE IF p.pc = "joining" /\ p.executing = << >>
             THEN [p EXCEPT !.pc = "resolved"]
             ELSE p
    /\ UNCHANGED <<orchestrator, retryCall, execution>>

\* task k rejects: its callback does not run, a pending race or all rejects
TaskReject(k) ==
    /\ k \in 1..parallelCall.n
    /\ parallelCall.state[k] = "running"
    /\ LET p == [parallelCall EXCEPT !.state[k] = "rejected"]
       IN  parallelCall' =
             IF (p.pc = "racing" /\ ~p.raceWon) \/ p.pc = "joining"
             THEN [p EXCEPT !.pc = "rejected"]
             ELSE p
    /\ UNCHANGED <<orchestrator, retryCall, execution>>

\* the continuation of `await Promise.race(executing)`
RaceWake ==
    /\ parallelCall.pc = "racing"
    /\ parallelCall.raceWon
    /\ parallelCall' = ParLoop(parallelCall)
    /\ UNCHANGED <<orchestrator, retryCall, execution>>

\* one call of retry and one call of parallel on the same event loop
InitAsyncUtils == Constructed(AgentConfig, 0)

NextAsyncUtils ==
    \/ \E attempts \in AttemptsChoices, delay \in DelayChoices : retry(attempts, delay)
    \/ FnResolve
    \/ FnReject
    \/ SleepWake
    \/ \E n \in 0..MaxTasks, limit \in LimitChoices : parallel(n, limit)
    \/ \E k \in 1..MaxTasks : TaskResolve(k)
    \/ \E k \in 1..MaxTasks : TaskReject(k)
    \/ RaceWake

SpecAsyncUtils == InitAsyncUtils /\ [][NextAsyncUtils]_vars

\* ---------------------------------------------------------- WorkflowEngine
\* WorkflowStep: the id of a step is its place in workflow.steps; `condition`
\* is absent ("none") or evaluates to true or false; `onFailure` is absent or
\* an empty list; a step of type parallel has its sub-steps in its config
WorkflowStep ==
    [type : {"command", "parallel"}, dependsOn : SUBSET {1},
     condition : {"none", "true", "false"}, onFailure : {"absent", "empty"}]

Workflows == UNION {[1..n -> WorkflowStep] : n \in 1..MaxSteps}

\* executeSteps: dependsOn.every(dep recorded with status completed)
DepsCompleted(e, step) == \A depId \in step.dependsOn : e.steps[depId] = "completed"

RECURSIVE ExecuteSteps(_)
\* executeSteps: `for (const step of steps)` from step `pos` up to the await
\* of the step's execution; after the loop executeWorkflow sets completed
ExecuteSteps(e) ==
    IF e.pos > Len(e.workflow)
    THEN [e EXCEPT !.status = "completed", !.pc = "returned"]
    ELSE LET step == e.workflow[e.pos]
         IN  IF ~DepsCompleted(e, step)
             THEN ExecuteSteps([e EXCEPT !.pos = @ + 1])
             ELSE IF step.condition = "false"
             THEN ExecuteSteps([e EXCEPT !.steps[e.pos] = "skipped", !.pos = @ + 1])
             ELSE [e EXCEPT !.steps[e.pos] = "running", !.pc = "step"]

executeWorkflow(workflow) ==
    /\ execution.pc = "idle"
    /\ execution' = ExecuteSteps([NoExecution EXCEPT
                                     !.status = "running", !.workflow = workflow,
                                     !.steps = [k \in 1..Len(workflow) |-> "absent"]])
    /\ UNCHANGED <<orchestrator, retryCall, parallelCall>>

\* the awaited executeStep or executeParallelSteps resolved
StepResolve ==
    /\ execution.pc = "step"
    /\ LET e == execution
           step == e.workflow[e.pos]
       IN  execution' =
             IF step.type = "parallel"
             THEN ExecuteSteps([e EXCEPT !.pos = @ + 1])
             ELSE ExecuteSteps([e EXCEPT !.steps[e.pos] = "completed", !.pos = @ + 1])
    /\ UNCHANGED <<orchestrator, retryCall, parallelCall>>

\* it rejected: the catch of executeSteps, and that of executeWorkflow when
\* the step has no onFailure
StepReject ==
    /\ execution.pc = "step"
    /\ LET e == [execution EXCEPT !.steps[execution.pos] = "failed"]
           step == e.workflow[e.pos]
       IN  execution' =
             IF step.onFailure = "empty"
             THEN ExecuteSteps([e EXCEPT !.pos = @ + 1])
             ELSE [e EXCEPT !.status = "failed", !.pc = "thrown"]
    /\ UNCHANGED <<orchestrator, retryCall, parallelCall>>

InitWorkflow == Constructed(AgentConfig, 0)

NextWorkflow ==
    \/ \E workflow \in Workflows : executeWorkflow(workflow)
    \/ StepResolve
    \/ StepReject

SpecWorkflow == InitWorkflow /\ [][NextWorkflow]_vars

TypeOK ==
    /\ config \in AgentConfig \cup DefaultRetryConfig
    /\ cleared \in 0..MaxShutdowns
    /\ agents \subseteq 1..Len(agentObj)
    /\ snapshot.keys \subseteq 1..Len(agentObj)
    /\ pending \in 0..config.maxConcurrent
    /\ Len(calls) + budget <= MaxCalls + 1

\* ---------------------------------------------------------------- helpers
Calls == 1..Len(calls)

Returned(c) == c.pc \in {"done", "finished"}

Escaped(c) == c.pc \in {"raised", "rethrown"}

\* the call of batch b that was made for tasks[k]
BatchCall(b, k) == calls[batches[b].first + k - 1]

InBody(c) == c.pc \in {"body", "retrybody"}

\* ------------------------------------------------------------------ claims

\* C1: a task with a non-empty prerequisite list has its body invoked only
\* after the resolver observed success for every prerequisite, and a task
\* whose dependency wait timed out has its body invoked zero times.
C1_BodyOnlyAfterDependencies ==
    \A i \in Calls :
        calls[i].task.dependencies # {} =>
            /\ (calls[i].invoked > 0 => calls[i].observed)
            /\ (calls[i].timedOut => calls[i].invoked = 0)

\* C2: the number of task bodies executing at the same instant never
\* exceeds maxConcurrent, whatever mix of executeTask, assignTask and
\* executeParallel started them.
C2_BodiesWithinBound ==
    Cardinality({i \in Calls : InBody(calls[i])}) <= config.maxConcurrent

\* C3: of the tasks submitted through executeParallel, at most maxConcurrent
\* are past the queue and not yet completed, counting those waiting on
\* dependencies or in retry back-off.
C3_QueueBound ==
    Cardinality({i \in Calls : /\ calls[i].origin = "parallel"
                               /\ calls[i].pc \notin {"queued", "finished", "rethrown"}})
        <= config.maxConcurrent

\* C3 witness: a batch larger than maxConcurrent, the slots all taken by tasks
\* that wait (on dependencies or in back-off) while another task is queued.
C3_Witness ==
    \E b \in 1..Len(batches) :
        /\ batches[b].n > config.maxConcurrent
        /\ queue # << >>
        /\ pending = config.maxConcurrent
        /\ \E k \in 1..batches[b].n : BatchCall(b, k).pc \in {"sleeping", "backoff"}

\* C4: t1 (no prerequisites) and t2 (dependencies [t1]) submitted together in
\* one executeParallel call with maxConcurrent >= 2 and a positive timeout,
\* no body invocation throwing: both outcomes are success and t2's body started after it observed t1's
\* success in the result store.
C4_DependentInBatchSucceeds ==
    \A b \in 1..Len(batches) :
        ( /\ batches[b].state = "returned"
          /\ batches[b].n = 2
          /\ config.maxConcurrent >= 2
          /\ config.timeout > 0
          /\ BatchCall(b, 1).task.id = "t1" /\ ~BatchCall(b, 1).task.hasDeps
          /\ BatchCall(b, 2).task.dependencies = {"t1"}
          /\ BatchCall(b, 1).threw = 0 /\ BatchCall(b, 2).threw = 0 )
        => /\ batches[b].result[1].status = "success"
           /\ batches[b].result[2].status = "success"
           /\ BatchCall(b, 2).observed

\* C5: when executeTask returns an outcome, the result store holds that
\* outcome under the task's id.
C5_ReturnedOutcomeRecorded ==
    [][\A i \in 1..Len(calls') :
          ( /\ calls'[i].pc = "done"
            /\ (i > Len(calls) \/ calls[i].pc # "done") )
          => taskResults'[calls'[i].task.id] = calls'[i].result]_vars

\* C6: a task whose body throws on every invocation, with retryOnFailure and
\* the configured retry bound of 3, has its body invoked exactly 3 times and
\* ends with a failure outcome.
C6_ThreeInvocations ==
    \A i \in Calls :
        ( /\ Returned(calls[i])
          /\ calls[i].task.retryOnFailure
          /\ config.retryAttempts = DefaultRetryAttempts
          /\ calls[i].invoked > 0
          /\ calls[i].threw = calls[i].invoked )
        => /\ calls[i].invoked = DefaultRetryAttempts
           /\ calls[i].result.status = "failure"

\* C7: a task with prerequisites whose dependency wait timed out ends with a failure outcome whose
\* error is the dependency-timeout message, with or without retryOnFailure,
\* and the timeout is not thrown to the caller.
C7_TimeoutIsFailure ==
    \A i \in Calls :
        (calls[i].task.dependencies # {} /\ calls[i].timedOut) =>
            /\ ~Escaped(calls[i])
            /\ Returned(calls[i]) =>
                  /\ calls[i].result.status = "failure"
                  /\ calls[i].result.error = DependencyTimeoutMsg

\* C8: executeParallel returns the outcomes in input order: the i-th outcome
\* is the outcome of tasks[i] and carries its id, whatever order the tasks
\* completed in.
C8_OrderPreserved ==
    \A b \in 1..Len(batches) :
        batches[b].state = "returned" =>
            /\ Len(batches[b].result) = batches[b].n
            /\ \A k \in 1..batches[b].n :
                  /\ batches[b].result[k] = BatchCall(b, k).result
                  /\ batches[b].result[k].taskId = BatchCall(b, k).task.id

\* C8 witness: a returned batch of two different tasks whose second task
\* completed first.
C8_Witness ==
    \E b \in 1..Len(batches) :
        /\ batches[b].state = "returned"
        /\ batches[b].order = <<2, 1>>
        /\ BatchCall(b, 1).task.id # BatchCall(b, 2).task.id
        /\ batches[b].result[1].taskId = BatchCall(b, 1).task.id

\* C9: no task-level failure escapes executeTask or executeParallel: an
\* executeTask that ended returned an outcome with status success or failure,
\* and a returned executeParallel yields one such outcome per task.
C9_NoEscape ==
    /\ \A i \in Calls :
          /\ ~Escaped(calls[i])
          /\ Returned(calls[i]) =>
                /\ calls[i].result.status \in {"success", "failure"}
                /\ calls[i].result.taskId = calls[i].task.id
    /\ \A b \in 1..Len(batches) :
          /\ batches[b].state # "rejected"
          /\ batches[b].state = "returned" =>
                /\ Len(batches[b].result) = batches[b].n
                /\ \A k \in 1..batches[b].n :
                      batches[b].result[k].status \in {"success", "failure"}

\* C9 witness: a returned batch of two tasks, one failed by a body error
\* and one failed by a dependency timeout.
C9_Witness ==
    \E b \in 1..Len(batches) :
        /\ batches[b].state = "returned"
        /\ batches[b].n = 2
        /\ \E k \in 1..2 : /\ batches[b].result[k].status = "failure"
                           /\ batches[b].result[k].error = BodyError(1)
        /\ \E k \in 1..2 : /\ batches[b].result[k].status = "failure"
                           /\ batches[b].result[k].error = DependencyTimeoutMsg

\* C10: when assignTask on a known agent completes, the agent is idle with no
\* currentTask and the result store maps the task's id to the outcome of the
\* task, which is success when the body was invoked and did not throw.
C10_AssignCompletes ==
    [][\A i \in Calls :
          ( /\ calls[i].origin = "assign"
            /\ calls[i].pc \in {"done", "raised"}
            /\ calls'[i].pc \in {"finished", "rethrown"} )
          => /\ agentObj'[calls[i].agent].status = "idle"
             /\ agentObj'[calls[i].agent].currentTask = NoTask
             /\ calls[i].pc = "done" =>
                   /\ taskResults'[calls[i].task.id] = calls[i].result
                   /\ (calls[i].invoked > 0 /\ calls[i].threw = 0) =>
                         taskResults'[calls[i].task.id].status = "success"]_vars

\* C10 witness: an assignTask that completed with a succeeding body: the agent
\* is idle and the store holds the success outcome.
C10_Witness ==
    \E i \in Calls :
        /\ calls[i].origin = "assign"
        /\ calls[i].pc = "finished"
        /\ calls[i].threw = 0 /\ calls[i].invoked = 1
        /\ agentObj[calls[i].agent].status = "idle"
        /\ agentObj[calls[i].agent].currentTask = NoTask
        /\ taskResults[calls[i].task.id] = calls[i].result
        /\ calls[i].result.status = "success"

\* C11: an agent's currentTask is set if and only if its status is busy, and
\* a status only ever changes from idle to busy or from busy to idle, under
\* every sequence of createAgent, assignTask and shutdown.
C11_AgentStatus ==
    [][\A a \in 1..Len(agentObj') :
          /\ (agentObj'[a].currentTask # NoTask) <=> (agentObj'[a].status = "busy")
          /\ agentObj'[a].status \in {"idle", "busy", "error"}
          /\ a > Len(agentObj) => agentObj'[a].status = "idle"
          /\ (a <= Len(agentObj) /\ agentObj'[a].status # agentObj[a].status) =>
                <<agentObj[a].status, agentObj'[a].status>> \in
                    {<<"idle", "busy">>, <<"busy", "idle">>, <<"busy", "error">>}]_vars

\* C11 witness: an agent that went idle, busy, idle and is busy again with
\* the task of its second assignment.
C11_Witness ==
    \E i, j \in Calls :
        /\ i < j
        /\ calls[i].origin = "assign" /\ calls[i].pc = "finished"
        /\ calls[j].origin = "assign" /\ calls[j].agent = calls[i].agent
        /\ calls[j].pc \in {"body", "sleeping"}
        /\ calls[j].task # calls[i].task
        /\ agentObj[calls[j].agent].status = "busy"
        /\ agentObj[calls[j].agent].currentTask = calls[j].task

\* C12: assignTask with an agent id that is not in the registry fails at
\* once with the not-found error, never invokes the task body, and leaves the
\* registry and the result store as they were.
C12_UnknownAgent ==
    [][\A i \in 1..Len(calls') :
          /\ calls'[i].pc = "notfound" => calls'[i].invoked = 0
          /\ ( /\ i > Len(calls)
               /\ calls'[i].origin = "assign"
               /\ calls'[i].agent \notin agents )
             => /\ calls'[i].pc = "notfound"
                /\ calls'[i].error = AgentNotFoundMsg
                /\ agents' = agents
                /\ agentObj' = agentObj
                /\ taskResults' = taskResults]_vars

\* C12 witness: an assignTask that failed with not-found on an orchestrator
\* that has an agent and a recorded outcome, both still there.
C12_Witness ==
    \E i \in Calls :
        /\ calls[i].pc = "notfound"
        /\ calls[i].agent \notin agents
        /\ calls[i].invoked = 0
        /\ agents # {}
        /\ \E t \in TaskIds : taskResults[t] # Undefined
        /\ taskResults[calls[i].task.id] = Undefined

\* C13: nothing that happens to the registry after getStatus() returned is
\* seen through the returned mapping: its keys and the status and currentTask
\* read under each key stay what they were when it was taken.
C13_SnapshotIsolated ==
    snapshot.taken =>
        /\ DOMAIN SnapshotView = snapshot.keys
        /\ \A id \in snapshot.keys : SnapshotView[id] = snapshot.copy[id]

\* C14: once an outcome is recorded under a task id, no step before the
\* clearing of shutdown replaces or removes it.
C14_AppendOnly ==
    [][\A t \in TaskIds :
          taskResults[t] # Undefined =>
              \/ taskResults'[t] = taskResults[t]
              \/ cleared' # cleared]_vars

\* C15: every shutdown() that returns, the second as well as the first,
\* leaves the registry and the result store empty.
C15_ShutdownIdempotent ==
    [][cleared' # cleared =>
          /\ cleared' = cleared + 1
          /\ ~shutdowns'
          /\ agents' = {}
          /\ \A t \in TaskIds : taskResults'[t] = Undefined]_vars

\* C15 witness: a second shutdown() returned with nothing pending, after a
\* run that had created an agent; registry and result store are empty.
C15_Witness ==
    /\ cleared = 2
    /\ ~shutdowns
    /\ QueueIdle
    /\ agentObj # << >>
    /\ agents = {}
    /\ \A t \in TaskIds : taskResults[t] = Undefined

C17_ReadyPassesAtOnce ==
    \A i \in Calls :
        ( /\ calls[i].task.hasDeps
          /\ calls[i].pc \notin {"queued", "notfound"}
          /\ calls[i].ready )
        => /\ ~calls[i].timedOut
           /\ calls[i].pc # "sleeping"
           /\ calls[i].observed

\* C18: a task without retryOnFailure, or under retryAttempts = 0, whose body
\* invocation failed was invoked exactly once, and executeTask returned at
\* once a failure outcome with the message of that error.
C18_NoRetryFirstFailure ==
    \A i \in Calls :
        ( /\ ~calls[i].task.retryOnFailure \/ config.retryAttempts = 0
          /\ calls[i].threw >= 1 )
        => /\ calls[i].invoked = 1
           /\ calls[i].threw = 1
           /\ Returned(calls[i])
           /\ calls[i].result.status = "failure"
           /\ calls[i].result.output = Null
           /\ calls[i].result.error = BodyError(1)

\* C18 witness: under retryAttempts = 0, a task that opted into retry and a
\* task that did not, each failed by its one body invocation.
C18_Witness ==
    /\ config.retryAttempts = 0
    /\ \E i, j \in Calls :
          /\ calls[i].task.retryOnFailure /\ ~calls[j].task.retryOnFailure
          /\ \A k \in {i, j} :
                /\ calls[k].threw = 1 /\ calls[k].invoked = 1
                /\ Returned(calls[k])
                /\ calls[k].result.error = BodyError(1)

\* C19: when every attempt of a retrying task fails, the outcome is failure
\* with the message of the last attempt's error, and nothing is thrown.
C19_LastErrorReported ==
    \A i \in Calls :
        /\ ~Escaped(calls[i])
        /\ ( /\ Returned(calls[i])
             /\ calls[i].task.retryOnFailure /\ config.retryAttempts > 0
             /\ calls[i].invoked >= 1
             /\ calls[i].threw = calls[i].invoked )
           => /\ calls[i].result.status = "failure"
              /\ calls[i].result.error = BodyError(calls[i].invoked)

\* C19 witness: a task whose first invocation and three retries all failed;
\* the outcome carries the fourth error.
C19_Witness ==
    \E i \in Calls :
        /\ Returned(calls[i])
        /\ calls[i].task.retryOnFailure
        /\ calls[i].threw = 4 /\ calls[i].invoked = 4
        /\ calls[i].result.status = "failure"
        /\ calls[i].result.error = BodyError(4)

\* C20: every outcome executeTask returns carries as duration the time
\* elapsed from the start of executeTask to the moment the outcome is made.
C20_DurationIsElapsed ==
    \A i \in Calls :
        calls[i].pc = "done" => calls[i].result.duration = calls[i].elapsed

\* C23: a task is retrying only after an invocation of its body has failed,
\* never straight from the dependency wait; a retrying task never goes back
\* to the dependency wait; and a task ends only by completing with an outcome.
C23_StateMachine ==
    \A i \in Calls :
      (calls[i].task.hasDeps => calls[i].task.dependencies # {}) =>
        /\ calls[i].pc \in {"backoff", "retrybody"} => calls[i].threw >= 1
        /\ calls[i].attempt >= 1 => calls[i].pc # "sleeping"
        /\ ~Escaped(calls[i])

\* C26: once an invocation of the body has succeeded, on the first attempt or
\* on a retry, the task has completed with a success outcome that carries the
\* output of that invocation, and the body is not invoked again.
C26_SuccessIsFinal ==
    \A i \in Calls :
        /\ calls[i].invoked <= calls[i].threw + 1
        /\ (calls[i].invoked = calls[i].threw + 1 /\ ~InBody(calls[i])) =>
              /\ Returned(calls[i])
              /\ calls[i].result.status = "success"
              /\ calls[i].result.taskId = calls[i].task.id
              /\ calls[i].result.output = BodyOutput(calls[i].invoked)

\* C26 witness: one task that succeeded on its first invocation and one that
\* succeeded on its retry; each outcome carries the output of the invocation
\* that succeeded.
C26_Witness ==
    \E i, j \in Calls :
        /\ Returned(calls[i]) /\ calls[i].invoked = 1 /\ calls[i].threw = 0
        /\ calls[i].result.output = BodyOutput(1)
        /\ Returned(calls[j]) /\ calls[j].invoked = 2 /\ calls[j].threw = 1
        /\ calls[j].result.status = "success"
        /\ calls[j].result.output = BodyOutput(2)

\* C27: while an assignTask call on an agent has started and not completed,
\* the agent is busy and its currentTask is set, also when two calls on the
\* same agent overlap and one finishes first.
C27_BusyWhileAssigned ==
    \A i \in Calls :
        ( /\ calls[i].origin = "assign"
          /\ calls[i].pc \in {"sleeping", "body", "backoff", "retrybody", "done", "raised"} )
        => /\ agentObj[calls[i].agent].status = "busy"
           /\ agentObj[calls[i].agent].currentTask # NoTask

\* C28: once a shutdown() has returned, nothing that began before it writes
\* into the registry or the result store: the registry changes only by a new
\* createAgent, and the result store only by an assignTask that was called
\* after the shutdown.
C28_NoLateWrites ==
    [][(cleared >= 1 /\ cleared' = cleared) =>
          /\ agents' # agents => Len(agentObj') > Len(agentObj)
          /\ taskResults' # taskResults =>
                \A i \in Calls :
                    (calls[i].pc = "done" /\ calls'[i].pc = "finished") =>
                        ~calls[i].stale]_vars

\* C24: a dependent whose check finds a failure outcome recorded for its
\* prerequisite goes on polling as long as the timeout has not elapsed; a
\* check that finds the entry replaced by a success outcome in time lets it
\* proceed to its body; and it times out only when the timeout has elapsed.
C24_NoShortCircuit ==
    [][\A i \in 1..Len(calls') :
          calls'[i].task.dependencies = {"t1"} =>
            /\ ( /\ i <= Len(calls)
                 /\ calls[i].pc = "sleeping" /\ calls[i].remaining = 0
                 /\ calls'[i] # calls[i] /\ cleared' = cleared )
               => /\ ( /\ taskResults["t1"].status = "failure"
                       /\ calls[i].waited < config.timeout )
                     => calls'[i].pc = "sleeping"
                  /\ ( /\ taskResults["t1"].status = "success"
                       /\ calls[i].waited < config.timeout )
                     => (calls'[i].pc = "body" /\ calls'[i].observed)
            /\ ( /\ calls'[i].timedOut
                 /\ (i > Len(calls) \/ ~calls[i].timedOut) )
               => /\ i <= Len(calls)
                  /\ calls[i].pc = "sleeping"
                  /\ calls[i].waited >= config.timeout]_vars

\* C24 witness: t1's recorded outcome was failure when the dependent began
\* to wait, was replaced by success while it polled, and the dependent has
\* gone on to its body.
C24_Witness ==
    /\ cleared = 0
    /\ Len(calls) >= 2
    /\ calls[1].task.id = "t1" /\ calls[1].pc = "finished"
    /\ calls[1].result.status = "failure"
    /\ calls[2].task.dependencies = {"t1"}
    /\ calls[2].observed /\ calls[2].invoked = 1
    /\ calls[2].elapsed >= CheckInterval
    /\ taskResults["t1"].status = "success"

C21_Retry ==
    /\ retryCall.invoked <= retryCall.attempts
    /\ retryCall.pc = "resolved" =>
          /\ retryCall.invoked = retryCall.i + 1
          /\ retryCall.value = FnValue(retryCall.invoked)
    /\ retryCall.pc = "rejected" =>
          /\ retryCall.invoked = retryCall.attempts
          /\ retryCall.invoked >= 1 => retryCall.error = FnError(retryCall.invoked)

\* C21 witness: three calls, all failed; retry rejected with the third error.
C21_Witness ==
    /\ retryCall.pc = "rejected"
    /\ retryCall.attempts = 3
    /\ retryCall.invoked = 3
    /\ retryCall.error = FnError(3)

\* C22: parallel returns the results in input order, result i being that of
\* tasks[i], one per task, whatever order the tasks complete in.
C22_ParallelOrder ==
    parallelCall.pc = "resolved" =>
        parallelCall.results = [k \in 1..parallelCall.n |-> k]

\* C29: parallel never has more than `limit` tasks started and not settled,
\* and it resolves only after every task has settled.
C29_ParallelLimit ==
    /\ Cardinality({k \in 1..parallelCall.n : parallelCall.state[k] = "running"})
          <= parallelCall.limit
    /\ parallelCall.pc = "resolved" =>
          \A k \in 1..parallelCall.n : parallelCall.state[k] = "resolved"

\* C29 witness: three tasks with limit 2: two are running, the third waits
\* for a free place.
C29_Witness ==
    /\ parallelCall.pc = "racing"
    /\ parallelCall.n = 3 /\ parallelCall.limit = 2
    /\ parallelCall.state[1] = "running"
    /\ parallelCall.state[2] = "running"
    /\ parallelCall.state[3] = "notstarted"

\* C30: when executeWorkflow returns with execution status completed, every
\* step recorded in execution.steps is completed, failed or skipped; none,
\* a step of type parallel included, is left running.
C30_StepsTerminal ==
    (execution.pc = "returned" /\ execution.status = "completed") =>
        \A k \in 1..Len(execution.steps) :
            execution.steps[k] \in {"absent", "completed", "failed", "skipped"}

====
